---- MODULE Spec2Model ----
(***************************************************************************)
(* Dense forward-mode automatic differentiation: the elementary-function   *)
(* library of opm/material/densead/Math.hpp and the MathToolbox            *)
(* specialisation for Evaluation<ValueType, numVars>.                       *)
(*                                                                         *)
(* Scalars.  ValueType is modelled as the extended reals of IEEE-754       *)
(* without rounding: a finite scalar is an exact number                    *)
(*        (n0 + n1*ln(2) + n2*pi) / d                                      *)
(* with integer n0, n1, n2 and d >= 1 in lowest terms, written             *)
(* <<"fin", n0, n1, n2, d>>; the other scalars are NaN, +Inf and -Inf.      *)
(* 1, ln(2) and pi are linearly independent over the rationals, so a       *)
(* finite scalar has exactly one such representation.  A result that is    *)
(* finite but has no such representation (sin(1), ln(3), a number larger   *)
(* than MaxMag) is the token OutOfRange; an operation is only explored on  *)
(* operands for which no OutOfRange arises.  Signed zeros are not          *)
(* distinguished (-0.0 == 0.0 in the code's comparisons).                  *)
(***************************************************************************)
EXTENDS Integers, Sequences, FiniteSets, TLC

VARIABLES op, a, b, s, r, same, plain, steps

vars == <<op, a, b, s, r, same, plain, steps>>

\* template parameter numVars of Evaluation<ValueType, numVars>
NumVars == 2
\* largest numerator / denominator of a finite scalar the model represents
MaxMag == 4096
\* longest chain of calls in which a result is fed back as an operand
MaxSteps == 2

----------------------------------------------------------------------------
(* Scalar values *)

Fin(n0, n1, n2, d) == <<"fin", n0, n1, n2, d>>
NaN == <<"nan", 0, 0, 0, 1>>
PInf == <<"pinf", 0, 0, 0, 1>>
NInf == <<"ninf", 0, 0, 0, 1>>
OutOfRange == <<"oor", 0, 0, 0, 1>>

Rat(n, d) == Fin(n, 0, 0, d)
Int2S(n) == Fin(n, 0, 0, 1)
Zero == Int2S(0)
One == Int2S(1)
Two == Int2S(2)
Half == Rat(1, 2)
\* ln(2) and pi
Ln2 == Fin(0, 1, 0, 1)
Pi == Fin(0, 0, 1, 1)

IsFin(x) == x[1] = "fin"
IsNaN(x) == x[1] = "nan"
IsInf(x) == x[1] \in {"pinf", "ninf"}
IsOOR(x) == x[1] = "oor"
IsRat(x) == IsFin(x) /\ x[3] = 0 /\ x[4] = 0
IsInt(x) == IsRat(x) /\ x[5] = 1

AbsInt(n) == IF n < 0 THEN -n ELSE n

RECURSIVE GCD(_, _)
GCD(m, n) == IF n = 0 THEN m ELSE GCD(n, m % n)

\* sign of n0 + n1*ln(2) + n2*pi from the enclosures
\* 0.6931 < ln(2) < 0.6932 and 3.1415 < pi < 3.1416; 2 when they do not decide it
SignNum(n0, n1, n2) ==
    LET lo == 10000 * n0 + (IF n1 >= 0 THEN 6931 * n1 ELSE 6932 * n1)
                         + (IF n2 >= 0 THEN 31415 * n2 ELSE 31416 * n2)
        hi == 10000 * n0 + (IF n1 >= 0 THEN 6932 * n1 ELSE 6931 * n1)
                         + (IF n2 >= 0 THEN 31416 * n2 ELSE 31415 * n2)
    IN  IF n0 = 0 /\ n1 = 0 /\ n2 = 0 THEN 0
        ELSE IF lo > 0 THEN 1
        ELSE IF hi < 0 THEN -1
        ELSE 2

\* the scalar (n0 + n1*ln(2) + n2*pi)/d, d > 0, in lowest terms
Norm(n0, n1, n2, d) ==
    LET g == GCD(GCD(AbsInt(n0), AbsInt(n1)), GCD(AbsInt(n2), d))
        m0 == n0 \div g
        m1 == n1 \div g
        m2 == n2 \div g
        e == d \div g
    IN  IF AbsInt(n0) > MaxMag * g \/ AbsInt(n1) > MaxMag * g
           \/ AbsInt(n2) > MaxMag * g \/ d > MaxMag * g
           \/ SignNum(m0, m1, m2) = 2
        THEN OutOfRange
        ELSE Fin(m0, m1, m2, e)

\* -1, 0, 1 for a finite scalar or an infinity
Sign(x) ==
    IF x[1] = "pinf" THEN 1
    ELSE IF x[1] = "ninf" THEN -1
    ELSE SignNum(x[2], x[3], x[4])

SignedInf(sg) == IF sg > 0 THEN PInf ELSE NInf

Neg(x) ==
    IF IsFin(x) THEN Fin(-x[2], -x[3], -x[4], x[5])
    ELSE IF x[1] = "pinf" THEN NInf
    ELSE IF x[1] = "ninf" THEN PInf
    ELSE x

Add(x, y) ==
    IF IsOOR(x) \/ IsOOR(y) THEN OutOfRange
    ELSE IF IsNaN(x) \/ IsNaN(y) THEN NaN
    ELSE IF IsInf(x) THEN (IF IsInf(y) /\ y # x THEN NaN ELSE x)
    ELSE IF IsInf(y) THEN y
    ELSE Norm(x[2] * y[5] + y[2] * x[5], x[3] * y[5] + y[3] * x[5],
              x[4] * y[5] + y[4] * x[5], x[5] * y[5])

Sub(x, y) == Add(x, Neg(y))

\* a finite scalar times the rational n/d, d > 0
Scale(x, n, d) == Norm(x[2] * n, x[3] * n, x[4] * n, x[5] * d)

Mul(x, y) ==
    IF IsOOR(x) \/ IsOOR(y) THEN OutOfRange
    ELSE IF IsNaN(x) \/ IsNaN(y) THEN NaN
    ELSE IF IsInf(x) \/ IsInf(y)
         THEN (IF Sign(x) = 0 \/ Sign(y) = 0 THEN NaN
               ELSE SignedInf(Sign(x) * Sign(y)))
    ELSE IF IsRat(y) THEN Scale(x, y[2], y[5])
    ELSE IF IsRat(x) THEN Scale(y, x[2], x[5])
    ELSE OutOfRange

Div(x, y) ==
    IF IsOOR(x) \/ IsOOR(y) THEN OutOfRange
    ELSE IF IsNaN(x) \/ IsNaN(y) THEN NaN
    ELSE IF IsInf(x)
         THEN (IF IsInf(y) THEN NaN
               ELSE IF Sign(y) < 0 THEN Neg(x) ELSE x)
    ELSE IF IsInf(y) THEN Zero
    ELSE IF Sign(y) = 0
         THEN (IF Sign(x) = 0 THEN NaN ELSE SignedInf(Sign(x)))
    ELSE IF IsRat(y)
         THEN (IF y[2] > 0 THEN Scale(x, y[5], y[2])
               ELSE Scale(x, -y[5], -y[2]))
    ELSE IF x = y THEN One
    ELSE IF Sign(x) = 0 THEN Zero
    ELSE OutOfRange

\* the comparison operators of ValueType: every comparison with NaN is false
Comparable(x, y) == ~IsOOR(x) /\ ~IsOOR(y) /\ ~IsOOR(Sub(x, y))

Lt(x, y) ==
    IF IsNaN(x) \/ IsNaN(y) \/ x = y THEN FALSE
    ELSE IF IsInf(x) \/ IsInf(y) THEN x[1] = "ninf" \/ y[1] = "pinf"
    ELSE Sign(Sub(x, y)) = -1

Gt(x, y) == Lt(y, x)
Le(x, y) == ~IsNaN(x) /\ ~IsNaN(y) /\ (x = y \/ Lt(x, y))
EqS(x, y) == ~IsNaN(x) /\ ~IsNaN(y) /\ x = y

----------------------------------------------------------------------------
(* The scalar math backend consumed through MathToolbox<ValueType>: the       *)
(* functions of <cmath> with their IEEE-754 / C99 special values, exact where *)
(* the real result is representable and OutOfRange where it is not.           *)

ScalarAbs(x) == IF IsFin(x) \/ IsInf(x) THEN (IF Sign(x) < 0 THEN Neg(x) ELSE x) ELSE x

\* std::min(a, b) is (b < a) ? b : a and std::max(a, b) is (a < b) ? b : a
ScalarMin(x, y) == IF IsOOR(x) \/ IsOOR(y) THEN OutOfRange ELSE IF Lt(y, x) THEN y ELSE x
ScalarMax(x, y) == IF IsOOR(x) \/ IsOOR(y) THEN OutOfRange ELSE IF Lt(x, y) THEN y ELSE x

RECURSIVE Pow2(_)
Pow2(k) == IF k = 0 THEN 1 ELSE 2 * Pow2(k - 1)

\* k with 2^k = n, or -1 when the positive integer n is no power of two
RECURSIVE Log2Int(_)
Log2Int(n) ==
    IF n = 1 THEN 0
    ELSE IF n % 2 # 0 THEN -1
    ELSE LET k == Log2Int(n \div 2) IN IF k < 0 THEN -1 ELSE k + 1

RECURSIVE SqrtFrom(_, _)
SqrtFrom(n, k) == IF k * k >= n THEN k ELSE SqrtFrom(n, k + 1)
ISqrt(n) == SqrtFrom(n, 0)
IsSquare(n) == ISqrt(n) * ISqrt(n) = n

ScalarExp(x) ==
    IF IsOOR(x) THEN OutOfRange
    ELSE IF IsNaN(x) THEN NaN
    ELSE IF x = PInf THEN PInf
    ELSE IF x = NInf THEN Zero
    ELSE IF x = Zero THEN One
    ELSE IF x[2] = 0 /\ x[4] = 0 /\ x[5] = 1 /\ AbsInt(x[3]) <= 20
         THEN (IF x[3] > 0 THEN Norm(Pow2(x[3]), 0, 0, 1)
               ELSE Norm(1, 0, 0, Pow2(-x[3])))
    ELSE OutOfRange

ScalarLog(x) ==
    IF IsOOR(x) THEN OutOfRange
    ELSE IF IsNaN(x) THEN NaN
    ELSE IF x = PInf THEN PInf
    ELSE IF x = NInf THEN NaN
    ELSE IF Sign(x) < 0 THEN NaN
    ELSE IF Sign(x) = 0 THEN NInf
    ELSE IF IsRat(x) /\ x[5] = 1 /\ Log2Int(x[2]) >= 0 THEN Fin(0, Log2Int(x[2]), 0, 1)
    ELSE IF IsRat(x) /\ x[2] = 1 /\ Log2Int(x[5]) >= 0 THEN Fin(0, -Log2Int(x[5]), 0, 1)
    ELSE OutOfRange

ScalarSqrt(x) ==
    IF IsOOR(x) THEN OutOfRange
    ELSE IF IsNaN(x) THEN NaN
    ELSE IF x = PInf THEN PInf
    ELSE IF x = NInf THEN NaN
    ELSE IF Sign(x) < 0 THEN NaN
    ELSE IF IsRat(x) /\ IsSquare(x[2]) /\ IsSquare(x[5]) THEN Rat(ISqrt(x[2]), ISqrt(x[5]))
    ELSE OutOfRange

\* b^k for an integer k >= 1
RECURSIVE IntPow(_, _)
IntPow(x, k) == IF k = 1 THEN x ELSE Mul(x, IntPow(x, k - 1))

IsOddInt(x) == IsInt(x) /\ x[2] % 2 # 0

\* |b| compared with 1 for a finite or infinite b: -1, 0, 1, or 2 when undecided
MagVsOne(x) ==
    IF IsInf(x) THEN 1
    ELSE LET m == Sub(ScalarAbs(x), One) IN IF IsOOR(m) THEN 2 ELSE Sign(m)

\* std::pow(b, e), C99 annex F
ScalarPow(x, e) ==
    IF IsOOR(x) \/ IsOOR(e) THEN OutOfRange
    ELSE IF e = Zero \/ x = One THEN One
    ELSE IF IsNaN(x) \/ IsNaN(e) THEN NaN
    ELSE IF IsInf(e)
         THEN (IF MagVsOne(x) = 2 THEN OutOfRange
               ELSE IF MagVsOne(x) = 0 THEN One
               ELSE IF (MagVsOne(x) > 0) = (e = PInf) THEN PInf ELSE Zero)
    ELSE IF x = PInf THEN (IF Sign(e) < 0 THEN Zero ELSE PInf)
    ELSE IF x = NInf
         THEN (IF Sign(e) < 0 THEN Zero ELSE IF IsOddInt(e) THEN NInf ELSE PInf)
    ELSE IF Sign(x) = 0 THEN (IF Sign(e) < 0 THEN PInf ELSE Zero)
    ELSE IF IsInt(e)
         THEN (IF AbsInt(e[2]) > 32 THEN OutOfRange
               ELSE IF e[2] > 0 THEN IntPow(x, e[2])
               ELSE Div(One, IntPow(x, -e[2])))
    ELSE IF Sign(x) < 0 THEN NaN
    ELSE IF IsRat(e) /\ e[5] = 2 /\ AbsInt(e[2]) <= 32
         THEN (IF e[2] > 0 THEN ScalarSqrt(IntPow(x, e[2]))
               ELSE ScalarSqrt(Div(One, IntPow(x, -e[2]))))
    ELSE OutOfRange

\* sin at u twelfths of a full turn (u * pi/6), where the value is rational
SinTwelfths(u) ==
    LET m == u % 12
    IN  IF m \in {0, 6} THEN Zero
        ELSE IF m \in {1, 5} THEN Half
        ELSE IF m = 3 THEN One
        ELSE IF m \in {7, 11} THEN Neg(Half)
        ELSE IF m = 9 THEN Neg(One)
        ELSE OutOfRange

\* x = u * pi/6 for an integer u
IsSixthOfPi(x) == IsFin(x) /\ x[2] = 0 /\ x[3] = 0 /\ 6 % x[5] = 0
SixthsOfPi(x) == x[4] * (6 \div x[5])

ScalarSin(x) ==
    IF IsOOR(x) THEN OutOfRange
    ELSE IF ~IsFin(x) THEN NaN
    ELSE IF IsSixthOfPi(x) THEN SinTwelfths(SixthsOfPi(x))
    ELSE OutOfRange

ScalarCos(x) ==
    IF IsOOR(x) THEN OutOfRange
    ELSE IF ~IsFin(x) THEN NaN
    ELSE IF IsSixthOfPi(x) THEN SinTwelfths(SixthsOfPi(x) + 3)
    ELSE OutOfRange

\* tan at multiples of pi/4; the poles at odd multiples of pi/2 are not represented
ScalarTan(x) ==
    IF IsOOR(x) THEN OutOfRange
    ELSE IF ~IsFin(x) THEN NaN
    ELSE IF x[2] = 0 /\ x[3] = 0 /\ 4 % x[5] = 0
         THEN LET m == (x[4] * (4 \div x[5])) % 4
              IN  IF m = 0 THEN Zero
                  ELSE IF m = 1 THEN One
                  ELSE IF m = 3 THEN Neg(One)
                  ELSE OutOfRange
    ELSE OutOfRange

ScalarAsin(x) ==
    IF IsOOR(x) THEN OutOfRange
    ELSE IF ~IsFin(x) THEN NaN
    ELSE IF MagVsOne(x) = 2 THEN OutOfRange
    ELSE IF MagVsOne(x) > 0 THEN NaN
    ELSE IF x = Zero THEN Zero
    ELSE IF x = One THEN Fin(0, 0, 1, 2)
    ELSE IF x = Neg(One) THEN Fin(0, 0, -1, 2)
    ELSE IF x = Half THEN Fin(0, 0, 1, 6)
    ELSE IF x = Neg(Half) THEN Fin(0, 0, -1, 6)
    ELSE OutOfRange

ScalarAcos(x) == Sub(Fin(0, 0, 1, 2), ScalarAsin(x))

ScalarAtan(x) ==
    IF IsOOR(x) THEN OutOfRange
    ELSE IF IsNaN(x) THEN NaN
    ELSE IF x = PInf THEN Fin(0, 0, 1, 2)
    ELSE IF x = NInf THEN Fin(0, 0, -1, 2)
    ELSE IF x = Zero THEN Zero
    ELSE IF x = One THEN Fin(0, 0, 1, 4)
    ELSE IF x = Neg(One) THEN Fin(0, 0, -1, 4)
    ELSE OutOfRange

\* std::atan2(y, x): the angle of the point (x, y)
ScalarAtan2(y, x) ==
    IF IsOOR(x) \/ IsOOR(y) THEN OutOfRange
    ELSE IF IsNaN(x) \/ IsNaN(y) THEN NaN
    ELSE IF IsInf(y)
         THEN (IF x = PInf THEN Scale(Pi, Sign(y), 4)
               ELSE IF x = NInf THEN Scale(Pi, 3 * Sign(y), 4)
               ELSE Scale(Pi, Sign(y), 2))
    ELSE IF x = PInf THEN Zero
    ELSE IF x = NInf THEN (IF Sign(y) < 0 THEN Neg(Pi) ELSE Pi)
    ELSE IF Sign(x) > 0 THEN ScalarAtan(Div(y, x))
    ELSE IF Sign(x) < 0
         THEN (IF Sign(y) < 0 THEN Sub(ScalarAtan(Div(y, x)), Pi)
               ELSE Add(ScalarAtan(Div(y, x)), Pi))
    ELSE IF Sign(y) > 0 THEN Fin(0, 0, 1, 2)
    ELSE IF Sign(y) < 0 THEN Fin(0, 0, -1, 2)
    ELSE Zero

\* MathToolbox<Scalar>::isSame(a, b, tolerance): equal within tolerance
ScalarIsSame(x, y, tol) == Le(ScalarAbs(Sub(x, y)), tol)

----------------------------------------------------------------------------
(* Evaluation<ValueType, numVars>: a value and numVars partial derivatives.   *)
(* The code indexes derivatives 0 .. numVars-1, the model 1 .. NumVars.       *)

Idx == 1 .. NumVars

Eval(v, d) == [value |-> v, derivatives |-> d]

\* Evaluation::createConstant(value), Evaluation::createVariable(value, varIdx)
createConstant(v) == Eval(v, [i \in Idx |-> Zero])
createVariable(v, k) == Eval(v, [i \in Idx |-> IF i = k THEN One ELSE Zero])

\* Evaluation::operator=(scalar): the value, and every derivative zero
AssignScalar(v) == createConstant(v)

\* Evaluation::operator==(scalar): compares the value field
EqualsScalar(x, v) == EqS(x.value, v)

\* the chain-rule loop reading the operand's next component
ChainRule_Shifted(df_dx, x) ==
    [i \in Idx |-> Mul(df_dx, x.derivatives[(i % NumVars) + 1])]

\* the chain-rule loop skipping the multiplication when the factor is zero
ChainRule_SkipsZeroFactor(df_dx, x) ==
    [i \in Idx |-> IF df_dx = Zero THEN Zero ELSE Mul(df_dx, x.derivatives[i])]

\* for (curVarIdx ...) result.derivatives[curVarIdx] = df_dx*x.derivatives[curVarIdx];
ChainRule(df_dx, x) == [i \in Idx |-> Mul(df_dx, x.derivatives[i])]

\* std::copy(x.derivatives.begin(), x.derivatives.end(), result.derivatives.begin())
CopyDerivatives(x) == [i \in Idx |-> x.derivatives[i]]

\* std::fill(result.derivatives.begin(), result.derivatives.end(), 0.0)
FillZero == [i \in Idx |-> Zero]

abs(x) ==
    IF Lt(x.value, Zero)
    THEN Eval(Neg(x.value), [i \in Idx |-> Neg(x.derivatives[i])])
    ELSE Eval(x.value, [i \in Idx |-> x.derivatives[i]])

min_EE(x1, x2) ==
    IF Lt(x1.value, x2.value)
    THEN Eval(x1.value, CopyDerivatives(x1))
    ELSE Eval(x2.value, CopyDerivatives(x2))

\* min with the scalar winning a tie
min_SE_TieToScalar(x1, x2) ==
    IF Le(x1, x2.value)
    THEN Eval(x1, FillZero)
    ELSE Eval(x2.value, CopyDerivatives(x2))

min_SE(x1, x2) ==
    IF Lt(x1, x2.value)
    THEN Eval(x1, FillZero)
    ELSE Eval(x2.value, CopyDerivatives(x2))

min_ES(x1, x2) == min_SE(x2, x1)

\* max with the first operand winning a tie
max_EE_TieToFirst(x1, x2) ==
    IF Gt(x1.value, x2.value) \/ EqS(x1.value, x2.value)
    THEN Eval(x1.value, CopyDerivatives(x1))
    ELSE Eval(x2.value, CopyDerivatives(x2))

max_EE(x1, x2) ==
    IF Gt(x1.value, x2.value)
    THEN Eval(x1.value, CopyDerivatives(x1))
    ELSE Eval(x2.value, CopyDerivatives(x2))

max_SE(x1, x2) ==
    IF Gt(x1, x2.value)
    THEN Eval(x1, FillZero)
    ELSE Eval(x2.value, CopyDerivatives(x2))

max_ES(x1, x2) == max_SE(x2, x1)

tan(x) ==
    LET tmp == ScalarTan(x.value)
        df_dx == Add(One, Mul(tmp, tmp))
    IN  Eval(tmp, ChainRule(df_dx, x))

atan(x) ==
    LET df_dx == Div(One, Add(One, Mul(x.value, x.value)))
    IN  Eval(ScalarAtan(x.value), ChainRule(df_dx, x))

atan2(x, y) ==
    LET alpha == Div(One, Add(One, Div(Mul(x.value, x.value), Mul(y.value, y.value))))
    IN  Eval(ScalarAtan2(x.value, y.value),
             [i \in Idx |->
                Mul(Div(alpha, Mul(y.value, y.value)),
                    Sub(Mul(x.derivatives[i], y.value), Mul(x.value, y.derivatives[i])))])

sin(x) ==
    LET df_dx == ScalarCos(x.value)
    IN  Eval(ScalarSin(x.value), ChainRule(df_dx, x))

asin(x) ==
    LET df_dx == Div(One, ScalarSqrt(Sub(One, Mul(x.value, x.value))))
    IN  Eval(ScalarAsin(x.value), ChainRule(df_dx, x))

\* cos with the sign of its derivative lost
cos_PositiveSin(x) ==
    LET df_dx == ScalarSin(x.value)
    IN  Eval(ScalarCos(x.value), ChainRule(df_dx, x))

cos(x) ==
    LET df_dx == Neg(ScalarSin(x.value))
    IN  Eval(ScalarCos(x.value), ChainRule(df_dx, x))

acos(x) ==
    LET df_dx == Neg(Div(One, ScalarSqrt(Sub(One, Mul(x.value, x.value)))))
    IN  Eval(ScalarAcos(x.value), ChainRule(df_dx, x))

sqrt(x) ==
    LET sqrt_x == ScalarSqrt(x.value)
        df_dx == Div(Half, sqrt_x)
    IN  Eval(sqrt_x, ChainRule(df_dx, x))

exp(x) ==
    LET exp_x == ScalarExp(x.value)
        df_dx == exp_x
    IN  Eval(exp_x, ChainRule(df_dx, x))

\* pow(AD, const) without the zero-base special case
pow_EC_NoZeroGuard(base, e) ==
    LET pow_x == ScalarPow(base.value, e)
        df_dx == Mul(Div(pow_x, base.value), e)
    IN  Eval(pow_x, ChainRule(df_dx, base))

\* exponentiation of arbitrary base with a fixed constant
pow_EC(base, e) ==
    LET pow_x == ScalarPow(base.value, e)
    IN  IF EqualsScalar(base, Zero)
        THEN AssignScalar(Zero)
        ELSE LET df_dx == Mul(Div(pow_x, base.value), e)
             IN  Eval(pow_x, ChainRule(df_dx, base))

\* exponentiation of constant base with an arbitrary exponent
pow_CE(base, e) ==
    IF EqS(base, Zero)
    THEN AssignScalar(Zero)
    ELSE LET lnBase == ScalarLog(base)
             value == ScalarExp(Mul(lnBase, e.value))
             df_dx == Mul(lnBase, value)
         IN  Eval(value, ChainRule(df_dx, e))

\* pow(AD, AD) without the zero-base special case
pow_EE_NoZeroGuard(base, e) ==
    LET valuePow == ScalarPow(base.value, e.value)
        f == base.value
        g == e.value
        logF == ScalarLog(f)
    IN  Eval(valuePow,
             [i \in Idx |->
                LET fPrime == base.derivatives[i]
                    gPrime == e.derivatives[i]
                IN  Mul(Add(Div(Mul(g, fPrime), f), Mul(logF, gPrime)), valuePow)])

\* pow(AD, AD) with the exponent missing from the base's term
pow_EE_DropsExponent(base, e) ==
    IF EqualsScalar(base, Zero)
    THEN AssignScalar(Zero)
    ELSE LET valuePow == ScalarPow(base.value, e.value)
             f == base.value
             logF == ScalarLog(f)
         IN  Eval(valuePow,
                  [i \in Idx |->
                     LET fPrime == base.derivatives[i]
                         gPrime == e.derivatives[i]
                     IN  Mul(Add(Div(fPrime, f), Mul(logF, gPrime)), valuePow)])

\* base and exponent both depend on the variables
pow_EE(base, e) ==
    IF EqualsScalar(base, Zero)
    THEN AssignScalar(Zero)
    ELSE LET valuePow == ScalarPow(base.value, e.value)
             f == base.value
             g == e.value
             logF == ScalarLog(f)
         IN  Eval(valuePow,
                  [i \in Idx |->
                     LET fPrime == base.derivatives[i]
                         gPrime == e.derivatives[i]
                     IN  Mul(Add(Div(Mul(g, fPrime), f), Mul(logF, gPrime)), valuePow)])

log(x) ==
    LET df_dx == Div(One, x.value)
    IN  Eval(ScalarLog(x.value), ChainRule(df_dx, x))

----------------------------------------------------------------------------
(* MathToolbox<Evaluation<ValueT, numVars>> *)

\* the derivative loop of isSame stopping one component early
DerivativesSame_SkipsLast(x, y, tolerance) ==
    \A i \in 1 .. NumVars - 1 :
        ScalarIsSame(x.derivatives[i], y.derivatives[i], tolerance)

\* the derivative loop of isSame: false at the first component that differs
DerivativesSame(x, y, tolerance) ==
    \A i \in 1 .. NumVars : ScalarIsSame(x.derivatives[i], y.derivatives[i], tolerance)

isSame(x, y, tolerance) ==
    IF ~ScalarIsSame(x.value, y.value, tolerance)
    THEN FALSE
    ELSE DerivativesSame(x, y, tolerance)

----------------------------------------------------------------------------
(* Operands *)

\* the operand values the calls are made on
ValInputs ==
    {NaN, PInf, NInf, Zero, One, Neg(One), Two, Neg(Two), Half, Int2S(3), Int2S(4),
     Ln2, Fin(0, 0, 1, 2), Fin(0, 0, 1, 4)}

\* derivative vectors: a constant, the variables, a dense vector with distinct
\* components (5, 9, ...), one with negative and fractional components, and dense
\* vectors with a NaN in one component
DerivInputs ==
    {[i \in Idx |-> Zero],
     [i \in Idx |-> Int2S(4 * i + 1)],
     [i \in Idx |-> IF i % 2 = 1 THEN Int2S(-3) ELSE Half]}
    \cup {[i \in Idx |-> IF i = k THEN One ELSE Zero] : k \in Idx}
    \cup {[i \in Idx |-> IF i = k THEN NaN ELSE Int2S(4 * i + 1)] : k \in Idx}

EvalInputs == {Eval(v, d) : v \in ValInputs, d \in DerivInputs}

Tolerances == {Zero, Half, One}

\* the operand slot of a call that takes no such operand
NoEval == createConstant(Zero)

\* no component of the evaluation is outside the represented scalars
Defined(e) == ~IsOOR(e.value) /\ \A i \in Idx : ~IsOOR(e.derivatives[i])

----------------------------------------------------------------------------
(* One call of a library function on fresh operands.  op names the function  *)
(* called, a and b hold its Evaluation operands, s its plain-scalar operand  *)
(* (or the tolerance), r the returned Evaluation, same the result of isSame. *)

Init ==
    /\ op = "init"
    /\ a = NoEval
    /\ b = NoEval
    /\ s = Zero
    /\ r = NoEval
    /\ same = FALSE
    /\ plain = Zero
    /\ steps = 0

Call(name, x, y, sc, res) ==
    /\ Defined(res)
    /\ op' = name
    /\ a' = x
    /\ b' = y
    /\ s' = sc
    /\ r' = res
    /\ steps' = 1
    /\ UNCHANGED <<same, plain>>

Abs ==
    /\ steps = 0
    /\ \E x \in EvalInputs : Call("abs", x, NoEval, Zero, abs(x))

MinEE ==
    /\ steps = 0
    /\ \E x1, x2 \in EvalInputs :
        Comparable(x1.value, x2.value) /\ Call("min_EE", x1, x2, Zero, min_EE(x1, x2))

MinSE ==
    /\ steps = 0
    /\ \E x1 \in ValInputs, x2 \in EvalInputs :
        Comparable(x1, x2.value) /\ Call("min_SE", x2, NoEval, x1, min_SE(x1, x2))

MinES ==
    /\ steps = 0
    /\ \E x1 \in EvalInputs, x2 \in ValInputs :
        Comparable(x1.value, x2) /\ Call("min_ES", x1, NoEval, x2, min_ES(x1, x2))

MaxEE ==
    /\ steps = 0
    /\ \E x1, x2 \in EvalInputs :
        Comparable(x1.value, x2.value) /\ Call("max_EE", x1, x2, Zero, max_EE(x1, x2))

MaxSE ==
    /\ steps = 0
    /\ \E x1 \in ValInputs, x2 \in EvalInputs :
        Comparable(x1, x2.value) /\ Call("max_SE", x2, NoEval, x1, max_SE(x1, x2))

MaxES ==
    /\ steps = 0
    /\ \E x1 \in EvalInputs, x2 \in ValInputs :
        Comparable(x1.value, x2) /\ Call("max_ES", x1, NoEval, x2, max_ES(x1, x2))

Tan ==
    /\ steps = 0
    /\ \E x \in EvalInputs : Call("tan", x, NoEval, Zero, tan(x))

Atan ==
    /\ steps = 0
    /\ \E x \in EvalInputs : Call("atan", x, NoEval, Zero, atan(x))

Atan2 ==
    /\ steps = 0
    /\ \E x, y \in EvalInputs : Call("atan2", x, y, Zero, atan2(x, y))

Sin ==
    /\ steps = 0
    /\ \E x \in EvalInputs : Call("sin", x, NoEval, Zero, sin(x))

Asin ==
    /\ steps = 0
    /\ \E x \in EvalInputs : Call("asin", x, NoEval, Zero, asin(x))

Cos ==
    /\ steps = 0
    /\ \E x \in EvalInputs : Call("cos", x, NoEval, Zero, cos(x))

Acos ==
    /\ steps = 0
    /\ \E x \in EvalInputs : Call("acos", x, NoEval, Zero, acos(x))

Sqrt ==
    /\ steps = 0
    /\ \E x \in EvalInputs : Call("sqrt", x, NoEval, Zero, sqrt(x))

Exp ==
    /\ steps = 0
    /\ \E x \in EvalInputs : Call("exp", x, NoEval, Zero, exp(x))

PowEC ==
    /\ steps = 0
    /\ \E base \in EvalInputs, e \in ValInputs :
        Call("pow_EC", base, NoEval, e, pow_EC(base, e))

PowCE ==
    /\ steps = 0
    /\ \E base \in ValInputs, e \in EvalInputs :
        Call("pow_CE", e, NoEval, base, pow_CE(base, e))

PowEE ==
    /\ steps = 0
    /\ \E base, e \in EvalInputs : Call("pow_EE", base, e, Zero, pow_EE(base, e))

Log ==
    /\ steps = 0
    /\ \E x \in EvalInputs : Call("log", x, NoEval, Zero, log(x))

IsSame ==
    /\ steps = 0
    /\ \E x, y \in EvalInputs, tolerance \in Tolerances :
        /\ Comparable(x.value, y.value)
        /\ \A i \in Idx : Comparable(x.derivatives[i], y.derivatives[i])
        /\ op' = "isSame"
        /\ a' = x
        /\ b' = y
        /\ s' = tolerance
        /\ same' = isSame(x, y, tolerance)
        /\ steps' = 1
        /\ UNCHANGED <<r, plain>>

Next ==
    \/ Abs \/ MinEE \/ MinSE \/ MinES \/ MaxEE \/ MaxSE \/ MaxES
    \/ Tan \/ Atan \/ Atan2 \/ Sin \/ Asin \/ Cos \/ Acos
    \/ Sqrt \/ Exp \/ PowEC \/ PowCE \/ PowEE \/ Log \/ IsSame

Spec == Init /\ [][Next]_vars

----------------------------------------------------------------------------
(* Properties of a single call *)

HasNaN(x) == IsNaN(x.value) \/ \E i \in Idx : IsNaN(x.derivatives[i])
IsConstant(x) == \A i \in Idx : x.derivatives[i] = Zero
AllZero(x) == x.value = Zero /\ IsConstant(x)
Positive(v) == IsFin(v) /\ Sign(v) > 0
Negative(v) == IsFin(v) /\ Sign(v) < 0

UnaryFns == {"abs", "tan", "atan", "sin", "asin", "cos", "acos", "sqrt", "exp", "log"}
MinMaxFns == {"min_EE", "min_SE", "min_ES", "max_EE", "max_SE", "max_ES"}
PowFns == {"pow_EC", "pow_CE", "pow_EE"}
LibraryFns == UnaryFns \cup MinMaxFns \cup PowFns \cup {"atan2"}

\* the plain-scalar function of the last call applied to the operands' values
PlainOf(f, av, bv, sc) ==
    CASE f = "abs" -> ScalarAbs(av)
      [] f = "min_EE" -> ScalarMin(av, bv)
      [] f = "min_SE" -> ScalarMin(sc, av)
      [] f = "min_ES" -> ScalarMin(av, sc)
      [] f = "max_EE" -> ScalarMax(av, bv)
      [] f = "max_SE" -> ScalarMax(sc, av)
      [] f = "max_ES" -> ScalarMax(av, sc)
      [] f = "tan" -> ScalarTan(av)
      [] f = "atan" -> ScalarAtan(av)
      [] f = "atan2" -> ScalarAtan2(av, bv)
      [] f = "sin" -> ScalarSin(av)
      [] f = "asin" -> ScalarAsin(av)
      [] f = "cos" -> ScalarCos(av)
      [] f = "acos" -> ScalarAcos(av)
      [] f = "sqrt" -> ScalarSqrt(av)
      [] f = "exp" -> ScalarExp(av)
      [] f = "pow_EC" -> ScalarPow(av, sc)
      [] f = "pow_CE" -> ScalarPow(sc, av)
      [] f = "pow_EE" -> ScalarPow(av, bv)
      [] f = "log" -> ScalarLog(av)

PlainValue == PlainOf(op, a.value, b.value, s)

\* the base and the exponent values of a pow call
PowBase == IF op = "pow_CE" THEN s ELSE a.value
PowExponent == IF op = "pow_EC" THEN s ELSE IF op = "pow_CE" THEN a.value ELSE b.value
\* the two values a min or max call compares
Compared1 == a.value
Compared2 == IF op \in {"min_EE", "max_EE"} THEN b.value ELSE s

\* C1 as stated, for the three pow overloads: the value field of the result is the
\* plain-scalar pow applied to the values of the base and the exponent.
C1_ValueIsPlainFunction ==
    (op \in PowFns /\ ~IsOOR(PlainValue)) => r.value = PlainValue

\* C1 amended: the value field is the plain-scalar function of the operands' values
\* for every function but pow, for min and max when neither compared value is NaN;
\* pow(AD, const) and pow(AD, AD) return pow(b, e) for a base b other than zero and 0
\* for b == 0; pow(const, AD) returns 0 for b == 0, NaN for b < 0, and pow(b, e) for
\* finite b > 0 and finite e.
C1_ValueCorrect ==
    /\ (op \in UnaryFns \cup {"atan2"} /\ ~IsOOR(PlainValue)) => r.value = PlainValue
    /\ (op \in MinMaxFns /\ ~IsNaN(Compared1) /\ ~IsNaN(Compared2))
          => r.value = PlainValue
    /\ (op \in PowFns /\ EqS(PowBase, Zero)) => r.value = Zero
    /\ (op \in {"pow_EC", "pow_EE"} /\ ~EqS(PowBase, Zero) /\ ~IsOOR(PlainValue))
          => r.value = PlainValue
    /\ (op = "pow_CE" /\ Negative(PowBase)) => IsNaN(r.value)
    /\ (op = "pow_CE" /\ Positive(PowBase) /\ IsFin(PowExponent) /\ ~IsOOR(PlainValue))
          => r.value = PlainValue

C1_Witness ==
    /\ op = "pow_CE" /\ s = Two /\ a.value = Int2S(3) /\ r.value = Int2S(8)

\* C2: in all three pow overloads a base whose value is exactly zero gives the
\* all-zero result, whatever the exponent and the derivative vectors are.
C2_ZeroBase ==
    (op \in PowFns /\ EqS(PowBase, Zero))
        => (r.value = Zero /\ \A i \in Idx : r.derivatives[i] = Zero)

C2_Witness ==
    /\ op = "pow_EE" /\ a.value = Zero /\ IsNaN(a.derivatives[1])
    /\ Negative(b.value) /\ ~IsConstant(b) /\ AllZero(r)

\* C3: min and max of two AD operands return one operand whole: x1 when
\* x1.value < x2.value (min) or x1.value > x2.value (max), and x2 in every other
\* case, ties included.
C3_MinMaxSelect ==
    /\ op = "min_EE" => r = (IF Lt(a.value, b.value) THEN a ELSE b)
    /\ op = "max_EE" => r = (IF Gt(a.value, b.value) THEN a ELSE b)

C3_Witness ==
    /\ op = "max_EE" /\ a.value = b.value /\ a.derivatives # b.derivatives /\ r = b

\* C4: min and max of a plain scalar and an AD value give the same result in both
\* argument orders: the scalar with all-zero derivatives when it strictly wins, and
\* the AD operand unchanged otherwise, ties included.
C4_ScalarMinMax ==
    /\ op \in {"min_SE", "min_ES"}
          => /\ r = (IF Lt(s, a.value) THEN Eval(s, [i \in Idx |-> Zero]) ELSE a)
             /\ min_SE(s, a) = min_ES(a, s)
    /\ op \in {"max_SE", "max_ES"}
          => /\ r = (IF Gt(s, a.value) THEN Eval(s, [i \in Idx |-> Zero]) ELSE a)
             /\ max_SE(s, a) = max_ES(a, s)

C4_Witness ==
    /\ op = "min_ES" /\ s = a.value /\ ~IsConstant(a) /\ r = a

\* the scalar derivative f'(v) of each unary function
Sq(v) == Mul(v, v)
DerivativeFactor(f, v) ==
    CASE f = "sin" -> ScalarCos(v)
      [] f = "cos" -> Neg(ScalarSin(v))
      [] f = "tan" -> Add(One, Sq(ScalarTan(v)))
      [] f = "asin" -> Div(One, ScalarSqrt(Sub(One, Sq(v))))
      [] f = "acos" -> Neg(Div(One, ScalarSqrt(Sub(One, Sq(v)))))
      [] f = "atan" -> Div(One, Add(One, Sq(v)))
      [] f = "exp" -> ScalarExp(v)
      [] f = "log" -> Div(One, v)
      [] f = "sqrt" -> Div(One, Mul(Two, ScalarSqrt(v)))

ChainRuleFns == UnaryFns \ {"abs"}

\* C6: every derivative component of the result of a unary function is the
\* operand's component times one scalar factor f'(v).
C6_ChainRule ==
    (op \in ChainRuleFns /\ ~IsOOR(DerivativeFactor(op, a.value)))
        => \A i \in Idx :
              r.derivatives[i] = Mul(DerivativeFactor(op, a.value), a.derivatives[i])

C6_Witness ==
    /\ op = "cos" /\ a.value = Fin(0, 0, 1, 2)
    /\ a.derivatives[1] = Int2S(5) /\ r.derivatives[1] = Int2S(-5)

\* C7 as stated: wherever pow(b, e) is defined the three overloads return the same
\* value, and pow(AD, AD) returns the derivatives of the overload whose other
\* operand is the constant when that operand has all-zero derivatives.
PowDefined(bv, ev) == ~IsOOR(ScalarPow(bv, ev)) /\ ~IsNaN(ScalarPow(bv, ev))

PowOverloadsAgree ==
    LET ec == pow_EC(a, b.value)
        ce == pow_CE(a.value, b)
    IN  (Defined(ec) /\ Defined(ce))
            => /\ r.value = ec.value
               /\ r.value = ce.value
               /\ IsConstant(b) => r.derivatives = ec.derivatives
               /\ IsConstant(a) => r.derivatives = ce.derivatives

C7_PowOverloadsAgree ==
    (op = "pow_EE" /\ PowDefined(a.value, b.value)) => PowOverloadsAgree

\* C7 amended: the same, for a finite base value b > 0 or b == 0 and a finite
\* exponent value, in exact arithmetic; for a base value b < 0 pow(const, AD)
\* returns the value NaN and pow(AD, AD) returns NaN derivatives.
C7_PowConsistent ==
    /\ (op = "pow_EE" /\ (Positive(a.value) \/ a.value = Zero) /\ IsFin(b.value))
          => PowOverloadsAgree
    /\ (op = "pow_EE" /\ Negative(a.value))
          => /\ IsNaN(pow_CE(a.value, b).value)
             /\ \A i \in Idx : IsNaN(r.derivatives[i])

C7_Witness ==
    /\ op = "pow_EE" /\ a.value = Two /\ b.value = Int2S(3) /\ IsConstant(b)
    /\ a.derivatives[1] = Int2S(5) /\ r.value = Int2S(8)
    /\ r.derivatives[1] = Int2S(60)
    /\ pow_EC(a, b.value) = r /\ pow_CE(a.value, b).value = Int2S(8)

\* every component of the evaluation is finite
Finite(x) == IsFin(x.value) /\ \A i \in Idx : IsFin(x.derivatives[i])

\* a and b differ at derivative k by more than the tolerance s and nowhere else
DiffersOnlyAt(k) ==
    /\ a.value = b.value
    /\ \A i \in Idx \ {k} : a.derivatives[i] = b.derivatives[i]
    /\ Gt(ScalarAbs(Sub(a.derivatives[k], b.derivatives[k])), s)

IsSameIsConjunction ==
    same = (/\ ScalarIsSame(a.value, b.value, s)
            /\ \A i \in Idx : ScalarIsSame(a.derivatives[i], b.derivatives[i], s))

\* C8 as stated: isSame is true iff the values and every derivative component are
\* the same within the tolerance; it is true of (a, a) for every a, and false when
\* a single derivative component differs by more than the tolerance.
C8_IsSameReflexive ==
    op = "isSame"
        => /\ IsSameIsConjunction
           /\ a = b => same
           /\ (\E k \in Idx : DiffersOnlyAt(k)) => ~same

\* the inner comparison finds every component of x the same as itself
SelfSame(x, tolerance) ==
    /\ ScalarIsSame(x.value, x.value, tolerance)
    /\ \A i \in Idx : ScalarIsSame(x.derivatives[i], x.derivatives[i], tolerance)

\* C8 amended: isSame is true iff the inner comparison accepts the values and every
\* derivative component; isSame(a, a, tol) is true for every a each of whose
\* components the inner comparison finds the same as itself (no NaN component), and
\* isSame is false when the inner comparison rejects a single derivative component.
C8_IsSame ==
    op = "isSame"
        => /\ IsSameIsConjunction
           /\ (a = b /\ SelfSame(a, s)) => same
           /\ (\E k \in Idx : ~ScalarIsSame(a.derivatives[k], b.derivatives[k], s)) => ~same
           /\ (\E k \in Idx : DiffersOnlyAt(k)) => ~same

C8_Witness ==
    /\ op = "isSame" /\ DiffersOnlyAt(NumVars) /\ ~same /\ Finite(a) /\ Finite(b)

\* the library function f on the operands of a call
LibApply(f, x, y, sc) ==
    CASE f = "abs" -> abs(x)
      [] f = "min_EE" -> min_EE(x, y)
      [] f = "min_SE" -> min_SE(sc, x)
      [] f = "min_ES" -> min_ES(x, sc)
      [] f = "max_EE" -> max_EE(x, y)
      [] f = "max_SE" -> max_SE(sc, x)
      [] f = "max_ES" -> max_ES(x, sc)
      [] f = "tan" -> tan(x)
      [] f = "atan" -> atan(x)
      [] f = "atan2" -> atan2(x, y)
      [] f = "sin" -> sin(x)
      [] f = "asin" -> asin(x)
      [] f = "cos" -> cos(x)
      [] f = "acos" -> acos(x)
      [] f = "sqrt" -> sqrt(x)
      [] f = "exp" -> exp(x)
      [] f = "pow_EC" -> pow_EC(x, sc)
      [] f = "pow_CE" -> pow_CE(sc, x)
      [] f = "pow_EE" -> pow_EE(x, y)
      [] f = "log" -> log(x)

\* x with every derivative component but the i-th replaced by NaN
Isolate(x, i) == Eval(x.value, [j \in Idx |-> IF j = i THEN x.derivatives[j] ELSE NaN])

\* C9: the result has numVars derivative components, and component i is computed
\* from the operands' values and their components i alone: it is the same when
\* every other component of every operand is replaced.
C9_Aligned ==
    op \in LibraryFns
        => /\ DOMAIN r.derivatives = Idx
           /\ \A i \in Idx :
                 LET res == LibApply(op, Isolate(a, i), Isolate(b, i), s)
                 IN  res.value = r.value /\ res.derivatives[i] = r.derivatives[i]

C9_Witness ==
    /\ op = "atan2" /\ a.derivatives[1] = Int2S(5) /\ a.derivatives[2] = Int2S(9)
    /\ b.derivatives[1] = Int2S(-3) /\ Finite(r)
    /\ r.derivatives[1] # r.derivatives[2]


\* the functions that take two Evaluation operands
TwoEvalFns == {"min_EE", "max_EE", "atan2", "pow_EE"}
\* the functions that take an Evaluation and a plain scalar
ScalarArgFns == {"min_SE", "min_ES", "max_SE", "max_ES", "pow_EC", "pow_CE"}

\* every operand of the recorded call is a finite constant
FiniteConstOperands ==
    /\ IsConstant(a) /\ IsFin(a.value)
    /\ op \in TwoEvalFns => (IsConstant(b) /\ IsFin(b.value))
    /\ op \in ScalarArgFns => IsFin(s)

\* the operands of the recorded call lie where the function is differentiable
\* and the plain-scalar result is finite
InDomain ==
    /\ FiniteConstOperands
    /\ IsFin(plain)
    /\ op \in {"asin", "acos"} => Lt(ScalarAbs(a.value), One)
    /\ op \in {"log", "sqrt"} => Positive(a.value)
    /\ op = "atan2" => b.value # Zero
    /\ op \in PowFns =>
          \/ Positive(PowBase)
          \/ PowBase = Zero /\ Positive(PowExponent)

\* C5 as stated: a toolbox call whose operands are zero-derivative evaluations
\* wrapping finite scalars returns createConstant of the plain-scalar
\* function's (finite) result, at every step of a chain.
C5_DispatchTransparent ==
    [][(r = createConstant(plain) /\ op' \in LibraryFns /\ FiniteConstOperands'
            /\ IsFin(plain'))
          => r' = createConstant(plain')]_vars

\* C5 amended: a toolbox call on constants wrapping finite scalars returns
\* createConstant of the plain-scalar result when the operands lie where the
\* function is differentiable (asin, acos: |v| < 1; log, sqrt: v > 0; atan2:
\* second argument not 0; pow: base > 0, or base = 0 and exponent > 0) and
\* the plain-scalar result is finite; a chain of such calls tracks the
\* plain-scalar chain step by step.
C5_DispatchInDomain ==
    [][(r = createConstant(plain) /\ op' \in LibraryFns /\ InDomain')
          => r' = createConstant(plain')]_vars

\* exp(log(2)) through the toolbox: the second call of a chain on constants
C5_Witness ==
    /\ steps = 2
    /\ op = "exp"
    /\ a = createConstant(Ln2)
    /\ plain = Two
    /\ r = createConstant(Two)

\* some operand of the recorded call carries a NaN
OperandHasNaN == HasNaN(a) \/ (op \in TwoEvalFns /\ HasNaN(b))

\* C10 as stated: once the result of a call carries a NaN, the next library
\* call that takes it as an operand returns a result that carries a NaN.
C10_NaNPropagates ==
    [][(steps >= 1 /\ HasNaN(r) /\ op' \in LibraryFns) => HasNaN(r')]_vars

\* the operand min or max returns: the first one when the comparison holds
MinMaxKeepsFirst ==
    CASE op = "min_EE" -> Lt(a.value, b.value)
      [] op = "max_EE" -> Gt(a.value, b.value)
      [] op \in {"min_SE", "min_ES"} -> ~Lt(s, a.value)
      [] op \in {"max_SE", "max_ES"} -> ~Gt(s, a.value)
      [] OTHER -> FALSE

\* C10 amended: a NaN in an operand is carried into the result by abs, the
\* trigonometric functions, atan2, sqrt, exp and log always; by the three pow
\* overloads when the base value is not exactly 0; by min and max exactly
\* when the operand they return is one that carries it.
C10_NaNCarried ==
    /\ (op \in UnaryFns \cup {"atan2"} /\ OperandHasNaN) => HasNaN(r)
    /\ (op \in {"pow_EC", "pow_EE"} /\ ~EqS(a.value, Zero) /\ OperandHasNaN)
          => HasNaN(r)
    /\ (op = "pow_CE" /\ ~EqS(s, Zero) /\ OperandHasNaN) => HasNaN(r)
    /\ op \in {"min_EE", "max_EE"} =>
          (HasNaN(r) <=> IF MinMaxKeepsFirst THEN HasNaN(a) ELSE HasNaN(b))
    /\ op \in MinMaxFns \ {"min_EE", "max_EE"} =>
          (HasNaN(r) <=> (MinMaxKeepsFirst /\ HasNaN(a)))

\* the second call of a chain takes a NaN the first call produced and
\* returns it
C10_Witness ==
    /\ steps = 2
    /\ op = "cos"
    /\ IsNaN(a.value)
    /\ \A i \in Idx : IsFin(a.derivatives[i])
    /\ HasNaN(r)

----------------------------------------------------------------------------
(* The forwarding wrappers of MathToolbox<Evaluation>.  kind stands for the     *)
(* static types of the two arguments that select the overload: "EE" two        *)
(* Evaluations, "SE" a scalar and an Evaluation, "ES" an Evaluation and a       *)
(* scalar.                                                                      *)

Toolbox_max(kind, arg1, arg2) ==
    CASE kind = "EE" -> max_EE(arg1, arg2)
      [] kind = "SE" -> max_SE(arg1, arg2)
      [] kind = "ES" -> max_ES(arg1, arg2)

Toolbox_min(kind, arg1, arg2) ==
    CASE kind = "EE" -> min_EE(arg1, arg2)
      [] kind = "SE" -> min_SE(arg1, arg2)
      [] kind = "ES" -> min_ES(arg1, arg2)

Toolbox_abs(arg) == abs(arg)
Toolbox_tan(arg) == tan(arg)
Toolbox_atan(arg) == atan(arg)
Toolbox_atan2(arg1, arg2) == atan2(arg1, arg2)
\* the sin wrapper forwarding to the wrong library function
Toolbox_sin_ForwardsToCos(arg) == cos(arg)
Toolbox_sin(arg) == sin(arg)
Toolbox_asin(arg) == asin(arg)
Toolbox_cos(arg) == cos(arg)
Toolbox_acos(arg) == acos(arg)
Toolbox_sqrt(arg) == sqrt(arg)
Toolbox_exp(arg) == exp(arg)
Toolbox_log(arg) == log(arg)

Toolbox_pow(kind, arg1, arg2) ==
    CASE kind = "EE" -> pow_EE(arg1, arg2)
      [] kind = "SE" -> pow_CE(arg1, arg2)
      [] kind = "ES" -> pow_EC(arg1, arg2)

----------------------------------------------------------------------------
(* Chains of calls through the toolbox: the result r of one call is an operand *)
(* of the next.  plain is the same chain of plain-scalar functions, run on the *)
(* values alone.                                                               *)

\* the evaluations a chain starts from
ChainVals == {NaN, Zero, One, Two, Neg(Two), Half, Ln2, Fin(0, 0, 1, 2)}
ChainInputs ==
    {Eval(v, d) : v \in ChainVals,
                  d \in {[i \in Idx |-> Zero], [i \in Idx |-> Int2S(4 * i + 1)],
                         [i \in Idx |-> IF i = 1 THEN NaN ELSE Int2S(4 * i + 1)]}}

\* the other operands of the binary calls of a chain
ChainOthers ==
    {createConstant(Zero), createConstant(Two), createConstant(Half),
     Eval(One, [i \in Idx |-> Int2S(4 * i + 1)]),
     Eval(NaN, [i \in Idx |-> Int2S(4 * i + 1)]),
     Eval(Neg(Two), [i \in Idx |-> IF i = 1 THEN NaN ELSE Int2S(4 * i + 1)])}
ChainScalars == {NaN, Zero, One, Two, Neg(One)}

InitChain ==
    \E x \in ChainInputs :
        /\ op = "init"
        /\ a = NoEval
        /\ b = NoEval
        /\ s = Zero
        /\ r = x
        /\ same = FALSE
        /\ plain = x.value
        /\ steps = 0

\* the call f(x, y, sc) returned res; the plain-scalar f returns pl
ChainCall(f, x, y, sc, res, pl) ==
    /\ Defined(res)
    /\ op' = f
    /\ a' = x
    /\ b' = y
    /\ s' = sc
    /\ r' = res
    /\ plain' = pl
    /\ steps' = steps + 1
    /\ UNCHANGED same

T_abs ==
    /\ steps < MaxSteps
    /\ ChainCall("abs", r, NoEval, Zero, Toolbox_abs(r), ScalarAbs(plain))

T_tan ==
    /\ steps < MaxSteps
    /\ ChainCall("tan", r, NoEval, Zero, Toolbox_tan(r), ScalarTan(plain))

T_atan ==
    /\ steps < MaxSteps
    /\ ChainCall("atan", r, NoEval, Zero, Toolbox_atan(r), ScalarAtan(plain))

T_sin ==
    /\ steps < MaxSteps
    /\ ChainCall("sin", r, NoEval, Zero, Toolbox_sin(r), ScalarSin(plain))

T_asin ==
    /\ steps < MaxSteps
    /\ ChainCall("asin", r, NoEval, Zero, Toolbox_asin(r), ScalarAsin(plain))

T_cos ==
    /\ steps < MaxSteps
    /\ ChainCall("cos", r, NoEval, Zero, Toolbox_cos(r), ScalarCos(plain))

T_acos ==
    /\ steps < MaxSteps
    /\ ChainCall("acos", r, NoEval, Zero, Toolbox_acos(r), ScalarAcos(plain))

T_sqrt ==
    /\ steps < MaxSteps
    /\ ChainCall("sqrt", r, NoEval, Zero, Toolbox_sqrt(r), ScalarSqrt(plain))

T_exp ==
    /\ steps < MaxSteps
    /\ ChainCall("exp", r, NoEval, Zero, Toolbox_exp(r), ScalarExp(plain))

T_log ==
    /\ steps < MaxSteps
    /\ ChainCall("log", r, NoEval, Zero, Toolbox_log(r), ScalarLog(plain))

T_atan2 ==
    /\ steps < MaxSteps
    /\ \E y \in ChainOthers :
          \/ ChainCall("atan2", r, y, Zero, Toolbox_atan2(r, y),
                       ScalarAtan2(plain, y.value))
          \/ ChainCall("atan2", y, r, Zero, Toolbox_atan2(y, r),
                       ScalarAtan2(y.value, plain))

T_min ==
    /\ steps < MaxSteps
    /\ \/ \E y \in ChainOthers :
             /\ Comparable(r.value, y.value)
             /\ \/ ChainCall("min_EE", r, y, Zero, Toolbox_min("EE", r, y),
                             ScalarMin(plain, y.value))
                \/ ChainCall("min_EE", y, r, Zero, Toolbox_min("EE", y, r),
                             ScalarMin(y.value, plain))
       \/ \E sc \in ChainScalars :
             /\ Comparable(sc, r.value)
             /\ \/ ChainCall("min_SE", r, NoEval, sc, Toolbox_min("SE", sc, r),
                             ScalarMin(sc, plain))
                \/ ChainCall("min_ES", r, NoEval, sc, Toolbox_min("ES", r, sc),
                             ScalarMin(plain, sc))

T_max ==
    /\ steps < MaxSteps
    /\ \/ \E y \in ChainOthers :
             /\ Comparable(r.value, y.value)
             /\ \/ ChainCall("max_EE", r, y, Zero, Toolbox_max("EE", r, y),
                             ScalarMax(plain, y.value))
                \/ ChainCall("max_EE", y, r, Zero, Toolbox_max("EE", y, r),
                             ScalarMax(y.value, plain))
       \/ \E sc \in ChainScalars :
             /\ Comparable(sc, r.value)
             /\ \/ ChainCall("max_SE", r, NoEval, sc, Toolbox_max("SE", sc, r),
                             ScalarMax(sc, plain))
                \/ ChainCall("max_ES", r, NoEval, sc, Toolbox_max("ES", r, sc),
                             ScalarMax(plain, sc))

T_pow ==
    /\ steps < MaxSteps
    /\ \/ \E y \in ChainOthers :
             \/ ChainCall("pow_EE", r, y, Zero, Toolbox_pow("EE", r, y),
                          ScalarPow(plain, y.value))
             \/ ChainCall("pow_EE", y, r, Zero, Toolbox_pow("EE", y, r),
                          ScalarPow(y.value, plain))
       \/ \E sc \in ChainScalars :
             \/ ChainCall("pow_EC", r, NoEval, sc, Toolbox_pow("ES", r, sc),
                          ScalarPow(plain, sc))
             \/ ChainCall("pow_CE", r, NoEval, sc, Toolbox_pow("SE", sc, r),
                          ScalarPow(sc, plain))

NextChain ==
    \/ T_abs \/ T_tan \/ T_atan \/ T_sin \/ T_asin \/ T_cos \/ T_acos
    \/ T_sqrt \/ T_exp \/ T_log \/ T_atan2 \/ T_min \/ T_max \/ T_pow

SpecChain == InitChain /\ [][NextChain]_vars

====
